---- MODULE Spec2Model ----
(***************************************************************************)
(* Travel-Cost-Estimator: the heuristic flight-offer analysis of           *)
(* backend/src/agentic_agents/crew_coordinator.py, its process-wide sweep  *)
(* cache (functools.lru_cache) and the collaborators it calls.             *)
(*                                                                         *)
(* Conventions                                                             *)
(*  - money is an integer number of mills (1/1000 of a currency unit), so  *)
(*    that an amount with more than two decimals can be told from a        *)
(*    rounded one; the statistics of a summary are kept in quarter-mills   *)
(*    (value * 4), the denominator the 25th/75th percentile needs;         *)
(*  - a date string "YYYY-MM-DD" is the tuple <<y, m, d>>; an absent date  *)
(*    (None or "") is <<>>;                                                *)
(*  - a timestamp is a number of minutes on one time line;                 *)
(*  - an optional value is a sequence of length 0 (None) or 1;             *)
(*  - a JSON field that may be absent, null or ill-typed is a record with  *)
(*    a kind k and the value.                                              *)
(***************************************************************************)
EXTENDS Integers, Sequences, FiniteSets, TLC

(***************************************************************************)
(* Bounds of the model                                                     *)
(***************************************************************************)
MaxRequests == 2
MaxChanges == 1
MaxPlanCalls == 2
MaxClock == 3

(***************************************************************************)
(* Dates: datetime.date.fromisoformat, date + timedelta, isoformat         *)
(***************************************************************************)
NoDate == <<>>

IsLeap(y) == (y % 4 = 0 /\ y % 100 # 0) \/ y % 400 = 0

DaysInMonth(y, m) ==
    IF m = 2 THEN (IF IsLeap(y) THEN 29 ELSE 28)
    ELSE IF m \in {4, 6, 9, 11} THEN 30 ELSE 31

\* date.fromisoformat accepts the string: otherwise it raises ValueError
ValidDate(dt) ==
    /\ Len(dt) = 3
    /\ dt[1] \in 1..9999
    /\ dt[2] \in 1..12
    /\ dt[3] \in 1..DaysInMonth(dt[1], dt[2])

NextDay(dt) ==
    IF dt[3] < DaysInMonth(dt[1], dt[2]) THEN <<dt[1], dt[2], dt[3] + 1>>
    ELSE IF dt[2] < 12 THEN <<dt[1], dt[2] + 1, 1>>
    ELSE <<dt[1] + 1, 1, 1>>

PrevDay(dt) ==
    IF dt[3] > 1 THEN <<dt[1], dt[2], dt[3] - 1>>
    ELSE IF dt[2] > 1 THEN <<dt[1], dt[2] - 1, DaysInMonth(dt[1], dt[2] - 1)>>
    ELSE <<dt[1] - 1, 12, 31>>

RECURSIVE AddDays(_, _)
AddDays(dt, n) ==
    IF n = 0 THEN dt
    ELSE IF n > 0 THEN AddDays(NextDay(dt), n - 1)
    ELSE AddDays(PrevDay(dt), n + 1)

WindowDays == 3

\* expand_dates raises when a date string does not parse
ExpandRaises(departure_date, return_date) ==
    \/ ~ValidDate(departure_date)
    \/ (return_date # NoDate /\ ~ValidDate(return_date))

\* a bug: range(-w, w), which leaves out the last day of the window
expand_dates_HalfOpen(departure_date, return_date, window_days) ==
    [n \in 1..(2 * window_days) |->
        <<AddDays(departure_date, n - window_days - 1),
          IF return_date # NoDate
          THEN AddDays(return_date, n - window_days - 1)
          ELSE NoDate>>]

\* a bug: one more pair when there is a return date
expand_dates_ExtraReturn(departure_date, return_date, window_days) ==
    [n \in 1..(2 * window_days + (IF return_date # NoDate THEN 2 ELSE 1)) |->
        <<AddDays(departure_date, n - window_days - 1),
          IF return_date # NoDate
          THEN AddDays(return_date, n - window_days - 1)
          ELSE NoDate>>]

\* expand_dates: one (departure, return) pair per offset in range(-w, w + 1)
expand_dates(departure_date, return_date, window_days) ==
    [n \in 1..(2 * window_days + 1) |->
        <<AddDays(departure_date, n - window_days - 1),
          IF return_date # NoDate
          THEN AddDays(return_date, n - window_days - 1)
          ELSE NoDate>>]

(***************************************************************************)
(* Raw offers of the flight-search collaborator                            *)
(***************************************************************************)
At(t) == [k |-> "at", t |-> t]
NoAt == [k |-> "missing", t |-> 0]
NullObj == [k |-> "null", t |-> 0]
BadAt == [k |-> "text", t |-> 0]

Stops(n) == [k |-> "int", v |-> n]
Op(c) == [k |-> "code", c |-> c]
Pt(h, m) == [k |-> "pt", h |-> h, m |-> m]
NoDuration == [k |-> "missing", h |-> 0, m |-> 0]

Seg(stops, dep, arr, carrier) ==
    [numberOfStops |-> Stops(stops),
     departure |-> At(dep),
     arrival |-> At(arr),
     operating |-> Op(carrier),
     carrierCode |-> carrier,
     duration |-> Pt((arr - dep) \div 60, (arr - dep) % 60)]

Itin(segs) == [segments |-> segs]

Price(total, currency) == [k |-> "num", total |-> total, currency |-> currency]
TextPrice(currency) == [k |-> "text", total |-> 0, currency |-> currency]

Fare(c) == [k |-> "cabin", c |-> c]
NoFare == [k |-> "none", c |-> ""]

Offer(id, price, itins, fare) ==
    [id |-> id, price |-> price, itineraries |-> itins, travelerPricings |-> fare]

Hm(h, m) == h * 60 + m

\* 100.00 USD, non-stop, 09:00-13:00, EK
OfferA == Offer("A", Price(100000, "USD"),
                <<Itin(<<Seg(0, Hm(9, 0), Hm(13, 0), "EK")>>)>>, Fare("ECONOMY"))
\* 200.00 EUR, two segments with a 90 minute layover, QR
OfferB == Offer("B", Price(200000, "EUR"),
                <<Itin(<<Seg(0, Hm(8, 0), Hm(10, 0), "QR"),
                         Seg(0, Hm(11, 30), Hm(15, 0), "QR")>>)>>, NoFare)
\* 120.00 USD, one stop, departs 03:00 (red-eye), UL
OfferC == Offer("C", Price(120000, "USD"),
                <<Itin(<<Seg(1, Hm(3, 0), Hm(9, 0), "UL")>>)>>, Fare("BUSINESS"))
\* 90.00 USD return trip, one itinerary each way, EK
OfferD == Offer("D", Price(90000, "USD"),
                <<Itin(<<Seg(0, Hm(9, 0), Hm(13, 0), "EK")>>),
                  Itin(<<Seg(0, Hm(200, 0), Hm(204, 0), "EK")>>)>>, Fare("ECONOMY"))
\* 80.00 GBP (no static rate to USD or EUR), non-stop, BA
OfferG == Offer("G", Price(80000, "GBP"),
                <<Itin(<<Seg(0, Hm(10, 0), Hm(14, 0), "BA")>>)>>, NoFare)
\* the price is not a number: float() raises
OfferBadPrice == Offer("P", TextPrice("USD"),
                <<Itin(<<Seg(0, Hm(9, 0), Hm(13, 0), "EK")>>)>>, NoFare)
\* 150.00 USD, the segment's "operating" field is null
OfferNullOp ==
    Offer("N", Price(150000, "USD"),
          <<Itin(<<[Seg(0, Hm(9, 0), Hm(13, 0), "EK")
                      EXCEPT !.operating = [k |-> "null", c |-> ""]]>>)>>, NoFare)
\* 110.00 USD, two stops in one segment
OfferS == Offer("S", Price(110000, "USD"),
                <<Itin(<<Seg(2, Hm(7, 0), Hm(19, 0), "UL")>>)>>, NoFare)
\* the total is 0
OfferZero == Offer("Z", Price(0, "USD"),
                <<Itin(<<Seg(0, Hm(9, 0), Hm(13, 0), "EK")>>)>>, NoFare)

\* 130.00 USD return trip, one stop each way, EK
OfferR == Offer("R", Price(130000, "USD"),
                <<Itin(<<Seg(1, Hm(9, 0), Hm(15, 0), "EK")>>),
                  Itin(<<Seg(1, Hm(200, 0), Hm(206, 0), "EK")>>)>>, NoFare)
\* 105.00 USD, the segment names no carrier at all
OfferNoCarrier ==
    Offer("U", Price(105000, "USD"),
          <<Itin(<<[Seg(0, Hm(9, 0), Hm(13, 0), "")
                      EXCEPT !.operating = [k |-> "missing", c |-> ""]]>>)>>, NoFare)
\* 115.00 USD, marketed by EK and operated by UL
OfferCodeshare ==
    Offer("K", Price(115000, "USD"),
          <<Itin(<<[Seg(0, Hm(9, 0), Hm(13, 0), "EK")
                      EXCEPT !.operating = Op("UL")]>>)>>, NoFare)
\* 95.00 USD, "fareDetailsBySegment" of the first traveler pricing is []
OfferNoFareDetails ==
    Offer("F", Price(95000, "USD"),
          <<Itin(<<Seg(0, Hm(9, 0), Hm(13, 0), "EK")>>)>>,
          [k |-> "emptylist", c |-> ""])
\* 97.00 USD, the fare details carry no "cabin"
OfferNoCabin == Offer("V", Price(97000, "USD"),
                <<Itin(<<Seg(0, Hm(9, 0), Hm(13, 0), "EK")>>)>>, Fare(""))
\* 125.00 USD, the departure timestamp does not parse, no duration
OfferBadTimes ==
    Offer("T", Price(125000, "USD"),
          <<Itin(<<[Seg(0, Hm(3, 0), Hm(13, 0), "EK")
                      EXCEPT !.departure = BadAt, !.duration = NoDuration]>>)>>, NoFare)
\* 140.00 USD, 05:00-09:00 on the clocks, duration PT5H30M
OfferLongDuration ==
    Offer("H", Price(140000, "USD"),
          <<Itin(<<[Seg(0, Hm(5, 0), Hm(9, 0), "EK")
                      EXCEPT !.duration = Pt(5, 30)]>>)>>, NoFare)
\* 135.00 USD, 10:00-16:00, no duration string
OfferNoDuration ==
    Offer("E", Price(135000, "USD"),
          <<Itin(<<[Seg(0, Hm(10, 0), Hm(16, 0), "QR")
                      EXCEPT !.duration = NoDuration]>>)>>, NoFare)
\* 160.00 USD return trip, the flight back departs at 02:00, EK
OfferLateReturn ==
    Offer("Y", Price(160000, "USD"),
          <<Itin(<<Seg(0, Hm(9, 0), Hm(13, 0), "EK")>>),
            Itin(<<Seg(0, Hm(194, 0), Hm(198, 0), "EK")>>)>>, NoFare)
\* 101.00 USD, codes in lower case: carrier "ek", cabin "economy"
OfferLowerCase == Offer("L", Price(101000, "USD"),
                  <<Itin(<<Seg(0, Hm(9, 0), Hm(13, 0), "ek")>>)>>, Fare("economy"))
\* 100.125 USD: a total with three decimals
OfferThreeDecimals == Offer("M", Price(100125, "USD"),
                      <<Itin(<<Seg(0, Hm(9, 0), Hm(13, 0), "EK")>>)>>, NoFare)
\* 110.00 USD and 200.00 USD, non-stop, EK
OfferI == Offer("I", Price(110000, "USD"),
                <<Itin(<<Seg(0, Hm(9, 0), Hm(13, 0), "EK")>>)>>, NoFare)
OfferJ == Offer("J", Price(200000, "USD"),
                <<Itin(<<Seg(0, Hm(9, 0), Hm(13, 0), "EK")>>)>>, NoFare)
\* 95.00 USD, the segment's "operating" field is null
OfferNullOpCheap ==
    Offer("Q", Price(95000, "USD"),
          <<Itin(<<[Seg(0, Hm(9, 0), Hm(13, 0), "EK")
                      EXCEPT !.operating = [k |-> "null", c |-> ""]]>>)>>, NoFare)
\* 109.90 USD, non-stop, EK
OfferW == Offer("W", Price(109900, "USD"),
                <<Itin(<<Seg(0, Hm(9, 0), Hm(13, 0), "EK")>>)>>, NoFare)

\* the raw offers the upstream can return, by their "id"; the state holds an
\* offer by its id, and Catalog gives the record
Catalog(id) ==
    CASE id = "A" -> OfferA
      [] id = "B" -> OfferB
      [] id = "C" -> OfferC
      [] id = "D" -> OfferD
      [] id = "G" -> OfferG
      [] id = "P" -> OfferBadPrice
      [] id = "N" -> OfferNullOp
      [] id = "S" -> OfferS
      [] id = "Z" -> OfferZero
      [] id = "R" -> OfferR
      [] id = "U" -> OfferNoCarrier
      [] id = "K" -> OfferCodeshare
      [] id = "F" -> OfferNoFareDetails
      [] id = "V" -> OfferNoCabin
      [] id = "T" -> OfferBadTimes
      [] id = "H" -> OfferLongDuration
      [] id = "E" -> OfferNoDuration
      [] id = "Y" -> OfferLateReturn
      [] id = "L" -> OfferLowerCase
      [] id = "M" -> OfferThreeDecimals
      [] id = "I" -> OfferI
      [] id = "J" -> OfferJ
      [] id = "Q" -> OfferNullOpCheap
      [] id = "W" -> OfferW

(***************************************************************************)
(* Preferences of a request, as execute_travel_analysis reads them         *)
(***************************************************************************)
Prefs(max_stops, exclude_redeye, carriers, min_layover, max_total, cabin) ==
    [max_stops |-> max_stops,
     exclude_redeye |-> exclude_redeye,
     preferred_carriers |-> carriers,
     min_layover_minutes |-> min_layover,
     max_total_travel_minutes |-> max_total,
     cabin_class |-> cabin]

\* preferences = None: the defaults of lines 29-34
DefaultPrefs == Prefs(1, FALSE, {}, 0, 0, "ANY")

\* str.upper on the codes the model uses
Upper(s) ==
    CASE s = "ek" -> "EK"
      [] s = "qr" -> "QR"
      [] s = "usd" -> "USD"
      [] s = "eur" -> "EUR"
      [] s = "economy" -> "ECONOMY"
      [] OTHER -> s

(***************************************************************************)
(* passes_filters: "true", "false", or "raise" when an exception leaves it *)
(***************************************************************************)
\* int(seg.get("numberOfStops", 0))
IntRaises(f) == f.k \notin {"int", "missing"}
IntOf(f) == IF f.k = "int" THEN f.v ELSE 0

RECURSIVE SumStops(_)
SumStops(segs) ==
    IF segs = <<>> THEN 0
    ELSE IntOf(Head(segs).numberOfStops) + SumStops(Tail(segs))

RECURSIVE AllSegs(_)
AllSegs(itins) ==
    IF itins = <<>> THEN <<>>
    ELSE Head(itins).segments \o AllSegs(Tail(itins))

\* a bug: an itinerary passes only with exactly max_stops stops
RECURSIVE StopFilter_Exact(_, _)
StopFilter_Exact(itins, max_stops) ==
    IF itins = <<>> THEN "true"
    ELSE IF SumStops(Head(itins).segments) # max_stops THEN "false"
    ELSE StopFilter_Exact(Tail(itins), max_stops)

\* lines 210-216: the stop count is summed and compared per itinerary
RECURSIVE StopFilter(_, _)
StopFilter(itins, max_stops) ==
    IF itins = <<>> THEN "true"
    ELSE IF \E n \in DOMAIN Head(itins).segments :
                IntRaises(Head(itins).segments[n].numberOfStops) THEN "raise"
    ELSE IF SumStops(Head(itins).segments) > max_stops THEN "false"
    ELSE StopFilter(Tail(itins), max_stops)

\* datetime.hour of a timestamp
HourOf(t) == (t \div 60) % 24

\* a bug: only the first segment's departure is looked at
RedEyeFilter_FirstSegment(segs) ==
    IF segs = <<>> THEN "true"
    ELSE IF Head(segs).departure.k = "null" THEN "raise"
    ELSE IF Head(segs).departure.k = "at" /\ HourOf(Head(segs).departure.t) < 5
         THEN "false"
    ELSE "true"

\* lines 219-230, over the segments in order
RECURSIVE RedEyeFilter(_)
RedEyeFilter(segs) ==
    IF segs = <<>> THEN "true"
    ELSE LET d == Head(segs).departure
         IN  IF d.k = "null" THEN "raise"
             ELSE IF d.k = "at" /\ HourOf(d.t) < 5 THEN "false"
             ELSE RedEyeFilter(Tail(segs))

\* (seg.get("operating", {}).get("carrierCode") or seg.get("carrierCode") or "")
CarrierRaises(seg) == seg.operating.k = "null"
CarrierOf(seg) ==
    IF seg.operating.k = "code" /\ seg.operating.c # "" THEN seg.operating.c
    ELSE seg.carrierCode

\* lines 233-238
RECURSIVE CarrierFilter(_, _)
CarrierFilter(segs, preferred) ==
    IF segs = <<>> THEN "true"
    ELSE IF CarrierRaises(Head(segs)) THEN "raise"
    ELSE IF Upper(CarrierOf(Head(segs))) # ""
            /\ Upper(CarrierOf(Head(segs))) \notin preferred THEN "false"
    ELSE CarrierFilter(Tail(segs), preferred)

\* lines 244-255 for one itinerary
RECURSIVE LayoverSegs(_, _)
LayoverSegs(segs, min_layover) ==
    IF Len(segs) < 2 THEN "true"
    ELSE LET a == segs[1].arrival
             d == segs[2].departure
         IN  IF a.k = "null" \/ d.k = "null" THEN "raise"
             ELSE IF a.k = "at" /\ d.k = "at" /\ d.t - a.t < min_layover THEN "false"
             ELSE LayoverSegs(Tail(segs), min_layover)

RECURSIVE LayoverFilter(_, _)
LayoverFilter(itins, min_layover) ==
    IF itins = <<>> THEN "true"
    ELSE IF LayoverSegs(Head(itins).segments, min_layover) # "true"
         THEN LayoverSegs(Head(itins).segments, min_layover)
    ELSE LayoverFilter(Tail(itins), min_layover)

\* parse_iso_duration_minutes of a "PT#H#M" string
parse_iso_duration_minutes(dur) == dur.h * 60 + dur.m

\* lines 263-276: the minutes one segment adds to the total
SegMinutesRaises(seg) ==
    seg.duration.k # "pt" /\ (seg.departure.k = "null" \/ seg.arrival.k = "null")
\* a bug: the duration string is ignored, the clock difference always used
SegMinutes_ClockOnly(seg) ==
    IF seg.departure.k = "at" /\ seg.arrival.k = "at"
    THEN seg.arrival.t - seg.departure.t
    ELSE 0
SegMinutes(seg) ==
    IF seg.duration.k = "pt" THEN parse_iso_duration_minutes(seg.duration)
    ELSE IF seg.departure.k = "at" /\ seg.arrival.k = "at"
         THEN seg.arrival.t - seg.departure.t
    ELSE 0

RECURSIVE TotalMinutes(_)
TotalMinutes(segs) ==
    IF segs = <<>> THEN 0 ELSE SegMinutes(Head(segs)) + TotalMinutes(Tail(segs))

\* lines 258-278
TravelTimeFilter(segs, max_total) ==
    IF \E n \in DOMAIN segs : SegMinutesRaises(segs[n]) THEN "raise"
    ELSE IF TotalMinutes(segs) > max_total THEN "false"
    ELSE "true"

passes_filters(itins, p) ==
    LET segs == AllSegs(itins)
        s1 == StopFilter(itins, p.max_stops)
        s2 == IF p.exclude_redeye THEN RedEyeFilter(segs) ELSE "true"
        s3 == IF p.preferred_carriers # {}
              THEN CarrierFilter(segs, p.preferred_carriers) ELSE "true"
        s4 == IF p.min_layover_minutes > 0
              THEN LayoverFilter(itins, p.min_layover_minutes) ELSE "true"
        s5 == IF p.max_total_travel_minutes > 0
              THEN TravelTimeFilter(segs, p.max_total_travel_minutes) ELSE "true"
    IN  IF s1 # "true" THEN s1
        ELSE IF s2 # "true" THEN s2
        ELSE IF s3 # "true" THEN s3
        ELSE IF s4 # "true" THEN s4
        ELSE s5

\* lines 58-63: the cabin filter of execute_travel_analysis
CabinFilter(offer, cabin_class) ==
    IF cabin_class = "ANY" \/ offer.travelerPricings.k = "none" THEN "true"
    ELSE IF offer.travelerPricings.k = "emptylist" THEN "raise"
    ELSE IF offer.travelerPricings.k = "cabin"
            /\ Upper(offer.travelerPricings.c) # ""
            /\ Upper(offer.travelerPricings.c) # cabin_class THEN "false"
    ELSE "true"

(***************************************************************************)
(* convert_currency and fetch_live_fx                                      *)
(***************************************************************************)
\* round(x, 2) of x = num / 10000 currency units, as mills; ties go to even
Round2(num) ==
    LET q == num \div 10000
        r == num % 10000
    IN  10 * (IF 2 * r > 10000 \/ (2 * r = 10000 /\ q % 2 = 1) THEN q + 1 ELSE q)

\* _FX, the rates in thousandths
FxPairs == {<<"EUR", "USD">>, <<"USD", "EUR">>}
FxRate(pair) == IF pair = <<"EUR", "USD">> THEN 1080 ELSE 930

\* fetch_live_fx: the rate in thousandths, or None
fetch_live_fx(fx) == IF fx.k = "rate" THEN <<fx.rate>> ELSE <<>>

\* a bug: the live rate is consulted before the static table
convert_currency_LiveFirst(amount, from_currency, to_currency, fx) ==
    IF from_currency = to_currency THEN amount
    ELSE IF fx.k # "raise" /\ fetch_live_fx(fx) # <<>> /\ fetch_live_fx(fx)[1] # 0
         THEN Round2(amount * fetch_live_fx(fx)[1])
    ELSE IF <<from_currency, to_currency>> \in FxPairs
         THEN Round2(amount * FxRate(<<from_currency, to_currency>>))
    ELSE amount

convert_currency(amount, from_currency, to_currency, fx) ==
    IF from_currency = to_currency THEN amount
    ELSE IF <<from_currency, to_currency>> \in FxPairs
         THEN Round2(amount * FxRate(<<from_currency, to_currency>>))
    ELSE IF fx.k # "raise" /\ fetch_live_fx(fx) # <<>> /\ fetch_live_fx(fx)[1] # 0
         THEN Round2(amount * fetch_live_fx(fx)[1])
    ELSE amount

(***************************************************************************)
(* build_highlights                                                        *)
(***************************************************************************)
\* a chained .get on a null "operating", "departure" or "arrival" raises
HighlightsRaise(itins) ==
    \E n \in DOMAIN AllSegs(itins) :
        LET seg == AllSegs(itins)[n]
        IN  \/ IntRaises(seg.numberOfStops)
            \/ seg.operating.k = "null"
            \/ seg.departure.k = "null"
            \/ seg.arrival.k = "null"

RECURSIVE CarrierList(_, _)
CarrierList(segs, acc) ==
    IF segs = <<>> THEN acc
    ELSE LET c == CarrierOf(Head(segs))
         IN  CarrierList(Tail(segs),
                         IF c # "" /\ \A n \in DOMAIN acc : acc[n] # c
                         THEN Append(acc, c) ELSE acc)

SetMin(S) == CHOOSE x \in S : \A y \in S : x <= y
SetMax(S) == CHOOSE x \in S : \A y \in S : x >= y

build_highlights(itins) ==
    LET segs == AllSegs(itins)
        deps == {segs[n].departure.t : n \in {m \in DOMAIN segs : segs[m].departure.k = "at"}}
        arrs == {segs[n].arrival.t : n \in {m \in DOMAIN segs : segs[m].arrival.k = "at"}}
    IN  [stops |-> SumStops(segs),
         carriers |-> CarrierList(segs, <<>>),
         depart_at |-> IF deps = {} THEN <<>> ELSE <<SetMin(deps)>>,
         arrive_at |-> IF arrs = {} THEN <<>> ELSE <<SetMax(arrs)>>]

(***************************************************************************)
(* The per-offer loop of execute_travel_analysis, lines 46-88              *)
(***************************************************************************)
\* what one offer appends to `prices` and to `offers`; the "itineraries" of a
\* normalised offer are those of the raw offer, Itineraries(o)
Appended(ps, os) == [prices |-> ps, offers |-> os]

\* a bug: an offer whose price is 0 is kept
ProcessOffer_KeepZero(id, prefs, target_currency, fx) ==
    LET offer == Catalog(id) IN
    IF offer.price.k = "text" THEN Appended(<<>>, <<>>)
    ELSE
    LET total == IF offer.price.k = "num" THEN offer.price.total ELSE 0
        currency == Upper(IF offer.price.currency = "" THEN "USD"
                          ELSE offer.price.currency)
        normalized_price == convert_currency(total, currency, target_currency, fx)
    IN  IF CabinFilter(offer, prefs.cabin_class) # "true" THEN Appended(<<>>, <<>>)
        ELSE IF passes_filters(offer.itineraries, prefs) # "true"
             THEN Appended(<<>>, <<>>)
        ELSE IF normalized_price < 0 THEN Appended(<<>>, <<>>)
        ELSE IF HighlightsRaise(offer.itineraries)
             THEN Appended(<<normalized_price>>, <<>>)
        ELSE Appended(<<normalized_price>>,
                      <<[id |-> offer.id,
                         price |-> normalized_price,
                         currency |-> target_currency,
                         highlights |-> build_highlights(offer.itineraries)]>>)

ProcessOffer(id, prefs, target_currency, fx) ==
    LET offer == Catalog(id) IN
    IF offer.price.k = "text" THEN Appended(<<>>, <<>>)
    ELSE
    LET total == IF offer.price.k = "num" THEN offer.price.total ELSE 0
        currency == Upper(IF offer.price.currency = "" THEN "USD"
                          ELSE offer.price.currency)
        normalized_price == convert_currency(total, currency, target_currency, fx)
    IN  IF CabinFilter(offer, prefs.cabin_class) # "true" THEN Appended(<<>>, <<>>)
        ELSE IF passes_filters(offer.itineraries, prefs) # "true"
             THEN Appended(<<>>, <<>>)
        ELSE IF normalized_price <= 0 THEN Appended(<<>>, <<>>)
        \* prices.append runs before build_highlights is evaluated
        ELSE IF HighlightsRaise(offer.itineraries)
             THEN Appended(<<normalized_price>>, <<>>)
        ELSE Appended(<<normalized_price>>,
                      <<[id |-> offer.id,
                         price |-> normalized_price,
                         currency |-> target_currency,
                         highlights |-> build_highlights(offer.itineraries)]>>)

\* the loop of lines 49-88 over the offers from number n on; acc is what the
\* earlier offers have appended
RECURSIVE ProcessFrom(_, _, _, _, _, _)
ProcessFrom(results, n, prefs, target_currency, fx, acc) ==
    IF n > Len(results) THEN acc
    ELSE CHOOSE r \in
           {ProcessFrom(results, n + 1, prefs, target_currency, fx,
                        Appended(acc.prices \o h.prices, acc.offers \o h.offers)) :
              h \in {ProcessOffer(results[n], prefs, target_currency, fx)}} : TRUE

ProcessOffers(results, prefs, target_currency, fx) ==
    ProcessFrom(results, 1, prefs, target_currency, fx, Appended(<<>>, <<>>))

(***************************************************************************)
(* Statistics, in quarter-mills                                            *)
(***************************************************************************)
\* sorted(): a stable insertion sort by Key(x)
RECURSIVE InsertBy(_, _, _)
InsertBy(Key(_), x, s) ==
    IF s = <<>> THEN <<x>>
    ELSE IF Key(x) < Key(Head(s)) THEN <<x>> \o s
    ELSE <<Head(s)>> \o InsertBy(Key, x, Tail(s))

RECURSIVE SortBy(_, _)
SortBy(Key(_), s) ==
    IF s = <<>> THEN <<>>
    ELSE InsertBy(Key, s[Len(s)], SortBy(Key, SubSeq(s, 1, Len(s) - 1)))

Ident(x) == x
sorted(s) == SortBy(Ident, s)

\* a bug: the value at the lower rank, without interpolation
percentile_LowerRank(sorted_values, pct) ==
    IF sorted_values = <<>> THEN 0
    ELSE 4 * sorted_values[(((Len(sorted_values) - 1) * (pct \div 25)) \div 4) + 1]

\* percentile(sorted_values, pct) for pct a multiple of 25, times 4
percentile(sorted_values, pct) ==
    IF sorted_values = <<>> THEN 0
    ELSE LET n == Len(sorted_values)
             k4 == (n - 1) * (pct \div 25)
             f == k4 \div 4
             c == IF f + 1 < n - 1 THEN f + 1 ELSE n - 1
         IN  IF f = c THEN 4 * sorted_values[f + 1]
             ELSE sorted_values[f + 1] * (4 * c - k4)
                  + sorted_values[c + 1] * (k4 - 4 * f)

\* statistics.median, times 4
median(values) ==
    LET s == sorted(values)
        n == Len(s)
    IN  IF n % 2 = 1 THEN 4 * s[(n \div 2) + 1]
        ELSE 2 * (s[n \div 2] + s[(n \div 2) + 1])

\* the statistics of a sorted, non-empty list of prices
Stats(prices_sorted) ==
    [count |-> Len(prices_sorted),
     min |-> 4 * prices_sorted[1],
     p25 |-> percentile(prices_sorted, 25),
     median |-> median(prices_sorted),
     p75 |-> percentile(prices_sorted, 75),
     max |-> 4 * prices_sorted[Len(prices_sorted)]]

\* lines 90-100: {} when there is no price
Summary(prices) ==
    IF prices = <<>> THEN <<>>
    ELSE CHOOSE r \in {<<Stats(s)>> : s \in {sorted(prices)}} : TRUE

(***************************************************************************)
(* Ranking and annotation, lines 102-115                                   *)
(***************************************************************************)
Abs(x) == IF x < 0 THEN 0 - x ELSE x

\* a bug: the price term is subtracted, favouring the dearer offer
Score_DearerFirst(o, target) ==
    IF target = <<>> THEN 400 * o.price
    ELSE 100 * Abs(4 * o.price - target[1]) - 4 * o.price

\* the score of line 108/110, times 400
Score(o, target) ==
    IF target = <<>> THEN 400 * o.price
    ELSE 100 * Abs(4 * o.price - target[1]) + 4 * o.price

Itineraries(o) == Catalog(o.id).itineraries

\* itineraries without a stop, lines 383-387
NonStop(itins) ==
    \A n \in DOMAIN AllSegs(itins) : IntOf(AllSegs(itins)[n].numberOfStops) = 0

annotate_pros_cons(offer, median_price) ==
    [id |-> offer.id,
     price |-> offer.price,
     currency |-> offer.currency,
     highlights |-> offer.highlights,
     pros |-> (IF median_price # <<>> /\ 4 * offer.price <= median_price[1]
               THEN <<"priced at or below median">> ELSE <<>>)
              \o (IF NonStop(Itineraries(offer)) THEN <<"non-stop segments">> ELSE <<>>),
     cons |-> (IF median_price # <<>> /\ 4 * offer.price > median_price[1]
               THEN <<"priced above median">> ELSE <<>>)
              \o (IF NonStop(Itineraries(offer)) THEN <<>> ELSE <<"one or more stops">>)]

TopN == 3

\* a bug: the offers are left in the order of the sweep
Ranked_Unsorted(offers, summary) == offers

\* a bug: the offers are ranked by price alone
Ranked_ByPrice(offers, summary) ==
    LET PriceOf(o) == o.price
    IN  SortBy(PriceOf, offers)

Ranked(offers, summary) ==
    LET target == IF summary # <<>> THEN <<summary[1].median>> ELSE <<>>
        ScoreOf(o) == Score(o, target)
    IN  SortBy(ScoreOf, offers)

(***************************************************************************)
(* Explanation, lines 117-149 and basic_explanation                        *)
(***************************************************************************)
\* a bug: nothing is said when there is no summary
basic_explanation_Silent(summary, recommendation, prefs) ==
    IF summary = <<>> THEN [source |-> "template", text |-> <<>>]
    ELSE [source |-> "template",
          text |-> <<"We evaluated", "Price range", "Median", "Filters applied">>]

basic_explanation(summary, recommendation, prefs) ==
    IF summary = <<>>
    THEN [source |-> "template",
          text |-> <<"No price summary available. Try different dates or relaxing filters.">>]
    ELSE [source |-> "template",
          text |-> <<"We evaluated", "Price range", "Median", "Filters applied">>
                   \o (IF recommendation # <<>>
                       THEN <<"Recommended option balances cost near median">>
                       ELSE <<>>)]

\* the value of `explanation` after lines 117-136: None or the text of the LLM
LlmExplanation(llm, recommendation) ==
    IF llm = "unavailable" \/ recommendation = <<>> THEN <<>>
    ELSE IF llm = "text" THEN <<[source |-> "llm", text |-> <<"approach, alternatives">>]>>
    ELSE IF llm = "empty" THEN <<[source |-> "llm", text |-> <<>>]>>
    ELSE <<>>

Explanation(llm, summary, recommendation, prefs) ==
    IF LlmExplanation(llm, recommendation) # <<>>
    THEN LlmExplanation(llm, recommendation)[1]
    ELSE basic_explanation(summary, recommendation, prefs)

(***************************************************************************)
(* The result object of execute_travel_analysis, lines 46-160              *)
(***************************************************************************)
\* lines 113-160, from the lists of the loop, the summary and the ranking
ResultObject(offers, summary, ranked, prefs, llm) ==
    LET top == SubSeq(ranked, 1, IF Len(ranked) < TopN THEN Len(ranked) ELSE TopN)
        target == IF summary # <<>> THEN <<summary[1].median>> ELSE <<>>
        recommendation == IF top # <<>> THEN <<top[1]>> ELSE <<>>
    IN  [summary |-> summary,
         recommendation |-> recommendation,
         top_recommendations |-> [n \in DOMAIN top |-> annotate_pros_cons(top[n], target)],
         offers_considered |-> Len(offers),
         explanation |-> Explanation(llm, summary, recommendation, prefs)]

\* lines 90-160, from the lists of the loop
Summarise(prices, offers, prefs, llm) ==
    CHOOSE r \in
      {CHOOSE q \in {ResultObject(offers, summary, ranked, prefs, llm) :
                       ranked \in {Ranked(offers, summary)}} : TRUE :
         summary \in {Summary(prices)}} : TRUE

Analyse(results, prefs, target_currency, fx, llm) ==
    CHOOSE r \in {Summarise(got.prices, got.offers, prefs, llm) :
                    got \in {ProcessOffers(results, prefs, target_currency, fx)}} : TRUE

(***************************************************************************)
(* The collaborators: flight search, live FX, explanation LLM, history     *)
(***************************************************************************)
World(flights, fx, llm, store) ==
    [flights |-> flights, fx |-> fx, llm |-> llm, store |-> store]

NoFx == [k |-> "none", rate |-> 0]
FxRaises == [k |-> "raise", rate |-> 0]
LiveFx(rate) == [k |-> "rate", rate |-> rate]

\* nothing published, nothing configured
QuietWorld == World("empty", NoFx, "unavailable", "ok")

Worlds ==
    {QuietWorld,
     World("down", FxRaises, "raises", "fails"),
     World("rich", LiveFx(1250), "text", "ok"),
     World("broken", NoFx, "empty", "ok")}

ListOf(data) == [k |-> "list", data |-> data]
ErrorMarker == [k |-> "error", data |-> <<>>]
Raises == [k |-> "raise", data |-> <<>>]

\* the ids of the offers the upstream publishes for one departure date
Published(departure_date, return_date, adults) ==
    IF departure_date[1] # 2025 THEN ListOf(<<>>)
    ELSE CASE departure_date[3] % 4 = 0 -> ErrorMarker
           [] departure_date[3] % 4 = 1 ->
                IF return_date = NoDate THEN ListOf(<<"A", "N">>)
                ELSE ListOf(<<"D", "A">>)
           [] departure_date[3] % 4 = 2 ->
                IF adults = 1 THEN ListOf(<<"B", "C">>) ELSE ListOf(<<"G">>)
           [] OTHER -> ListOf(<<"P", "S", "Z">>)

\* search_flights: response.data, the error marker of lines 42-44, or an
\* exception that is no ResponseError
search_flights(flights, origin, destination, departure_date, return_date, adults) ==
    CASE flights = "empty" -> ListOf(<<>>)
      [] flights = "down" -> ErrorMarker
      [] flights = "broken" /\ departure_date[3] % 4 = 1 -> Raises
      [] OTHER -> Published(departure_date, return_date, adults)

(***************************************************************************)
(* Requests accepted by the TravelRequest schema                           *)
(***************************************************************************)
Request(origin, destination, departure_date, return_date, travelers, currency, prefs) ==
    [origin |-> origin, destination |-> destination,
     departure_date |-> departure_date, return_date |-> return_date,
     travelers |-> travelers, currency |-> currency, preferences |-> prefs]

StrictPrefs == Prefs(0, TRUE, {"EK", "QR"}, 60, 600, "ECONOMY")

FirstRequest == Request("CMB", "DXB", <<2025, 6, 10>>, NoDate, 1, "USD", DefaultPrefs)

\* the same trip asked for in another currency and with every filter set
SameTupleRequest == Request("CMB", "DXB", <<2025, 6, 10>>, NoDate, 1, "eur", StrictPrefs)

OtherRequest ==
    Request("CMB", "LHR", <<2025, 3, 1>>, <<2025, 3, 30>>, 2, "USD", DefaultPrefs)

\* the schema takes any string for a date
BadDateRequest ==
    Request("CMB", "DXB", <<2025, 2, 30>>, NoDate, 1, "USD", DefaultPrefs)

Requests == {FirstRequest, OtherRequest, BadDateRequest}

\* a bug: the currency is part of the key
CacheKey_WithCurrency(req) ==
    <<req.origin, req.destination, req.departure_date, req.return_date,
      req.travelers, req.currency>>

\* lines 37-43
CacheKey(req) ==
    <<req.origin, req.destination, req.departure_date, req.return_date, req.travelers>>

(***************************************************************************)
(* State                                                                   *)
(***************************************************************************)
VARIABLES
    upstream,   \* what the collaborators currently answer
    changes,    \* how many times the upstream has changed
    cache,      \* lru_cache of cached_search_sweep, least recently used first
    lastUse,    \* the cache keys in the order of their last use (hit or insertion)
    evicted,    \* the cache keys that lru_cache has dropped so far
    tasks,      \* the requests received, in order of arrival
    history,    \* number of audit documents in agentic_search_history
    account,    \* the document of one user in the users collection
    clock,      \* datetime.utcnow(), in half days
    planCalls   \* the generate-travel-plan requests of that user, by arrival

vars == <<upstream, changes, cache, lastUse, evicted, tasks, history,
          account, clock, planCalls>>

\* the state of plan generation
plansVars == <<account, clock, planCalls>>

\* the user document as create_user writes it (crud.py, lines 71-74)
BasicAccount ==
    [subscription_type |-> "basic", subscription_expiry |-> <<>>,
     last_plan_date |-> <<>>, plans_today |-> 0]

\* no plan is asked for
PlansIdle == account = BasicAccount /\ clock = 0 /\ planCalls = <<>>

Maxsize == 64

Keys(c) == {c[n].key : n \in DOMAIN c}
\* a bug: the value of the oldest entry is returned
Lookup_First(c, key) == c[1]

Lookup(c, key) == c[CHOOSE n \in DOMAIN c : c[n].key = key]
\* the value of `changes` when the sweep that filled the entry began
SweptEpoch(c, key) == c[CHOOSE n \in DOMAIN c : c[n].key = key].sweptAt
Without(s, key) == SelectSeq(s, LAMBDA e : e.key # key)
WithoutKey(s, key) == SelectSeq(s, LAMBDA k : k # key)

\* a bug: a hit does not refresh the entry (first in, first out)
CacheHit_NoRefresh(c, key) == c

\* a hit moves the entry to the most recently used end
CacheHit(c, key) == Append(Without(c, key), Lookup(c, key))

\* a bug: a sweep that found nothing is not stored
CacheInsert_SkipEmpty(c, entry) ==
    IF entry.key \in Keys(c) \/ entry.value = <<>> THEN c
    ELSE IF Len(c) >= Maxsize THEN Append(Tail(c), entry)
    ELSE Append(c, entry)

\* the insertion after the wrapped function has returned
CacheInsert(c, entry) ==
    IF entry.key \in Keys(c) THEN c
    ELSE IF Len(c) >= Maxsize THEN Append(Tail(c), entry)
    ELSE Append(c, entry)

NewTask(req, unfinished) ==
    [req |-> req, pc |-> "pending", aggregated |-> <<>>, calls |-> <<>>,
     hit |-> FALSE, tupleCached |-> FALSE, beganAt |-> 0, sweptAt |-> 0, endedAt |-> 0,
     overlap |-> unfinished, result |-> <<>>]

Finished(t) == t.pc \in {"returned", "raised"}

\* a bug: the handler runs in a thread pool, calls overlap
LoopIdle_Threaded == TRUE

\* the event loop runs one coroutine at a time: execute_travel_analysis has
\* no await, so it starts only when no other call is between its first and
\* last line
LoopIdle == \A n \in DOMAIN tasks : tasks[n].pc \in {"pending", "returned", "raised"}

\* the five fields of a request that identify a sweep
RequestTuple(req) ==
    <<req.origin, req.destination, req.departure_date, req.return_date, req.travelers>>

Init ==
    /\ upstream = QuietWorld
    /\ changes = 0
    /\ cache = <<>>
    /\ lastUse = <<>>
    /\ evicted = {}
    /\ tasks = <<>>
    /\ history = 0
    /\ PlansIdle

(***************************************************************************)
(* Actions                                                                 *)
(***************************************************************************)
\* a collaborator changes what it answers
UpstreamChange(w) ==
    /\ changes < MaxChanges
    /\ w # upstream
    /\ upstream' = w
    /\ changes' = changes + 1
    /\ UNCHANGED <<cache, lastUse, evicted, tasks, history, plansVars>>

\* the router accepts a request and schedules the coroutine
Arrive(req, max) ==
    /\ Len(tasks) < max
    /\ tasks' = Append(tasks,
                       NewTask(req, {n \in DOMAIN tasks : ~Finished(tasks[n])}))
    /\ UNCHANGED <<upstream, changes, cache, lastUse, evicted, history, plansVars>>

Submit(req) == Arrive(req, MaxRequests)

\* lines 22-44 up to the cache lookup of cached_search_sweep
Begin(n) ==
    LET t == tasks[n]
        key == CacheKey(t.req)
        cached == \E m \in DOMAIN cache :
                     SubSeq(cache[m].key, 1, 5) = RequestTuple(t.req)
    IN  /\ t.pc = "pending"
        /\ LoopIdle
        /\ IF key \in Keys(cache)
           THEN /\ cache' = CacheHit(cache, key)
                /\ lastUse' = Append(WithoutKey(lastUse, key), key)
                /\ tasks' = [tasks EXCEPT ![n] =
                               [t EXCEPT !.pc = "analyse", !.hit = TRUE,
                                         !.tupleCached = cached,
                                         !.beganAt = changes,
                                         !.aggregated = Lookup(cache, key).value,
                                         !.sweptAt = SweptEpoch(cache, key)]]
           ELSE /\ UNCHANGED <<cache, lastUse>>
                /\ tasks' = [tasks EXCEPT ![n] =
                               [t EXCEPT !.pc = IF ExpandRaises(t.req.departure_date,
                                                                t.req.return_date)
                                                THEN "raised" ELSE "sweep",
                                         !.tupleCached = cached,
                                         !.beganAt = changes,
                                         !.sweptAt = changes,
                                         !.endedAt = changes]]
        /\ UNCHANGED <<upstream, changes, evicted, history, plansVars>>

\* a bug: the loop ends at the first error marker
RECURSIVE SweepCalls_StopAtError(_, _, _, _, _, _)
SweepCalls_StopAtError(req, dates, i, split, before, after) ==
    IF i > Len(dates) THEN <<>>
    ELSE LET res == search_flights(IF i <= split THEN before ELSE after,
                                   req.origin, req.destination,
                                   dates[i][1], dates[i][2], req.travelers)
             call == [dd |-> dates[i][1], rd |-> dates[i][2], res |-> res]
         IN  IF res.k # "list" THEN <<call>>
             ELSE <<call>> \o SweepCalls_StopAtError(req, dates, i + 1, split,
                                                     before, after)

\* the calls of the loop of cached_search_sweep, lines 450-453, from date
\* pair i on, up to and including a call that raises; the upstream answers
\* the first `split` calls as `before` and the later ones as `after`
RECURSIVE SweepCalls(_, _, _, _, _, _)
SweepCalls(req, dates, i, split, before, after) ==
    IF i > Len(dates) THEN <<>>
    ELSE LET res == search_flights(IF i <= split THEN before ELSE after,
                                   req.origin, req.destination,
                                   dates[i][1], dates[i][2], req.travelers)
             call == [dd |-> dates[i][1], rd |-> dates[i][2], res |-> res]
         IN  IF res.k = "raise" THEN <<call>>
             ELSE <<call>> \o SweepCalls(req, dates, i + 1, split, before, after)

\* aggregated.extend(res) for the calls that returned a list
RECURSIVE Aggregated(_)
Aggregated(calls) ==
    IF calls = <<>> THEN <<>>
    ELSE (IF Head(calls).res.k = "list" THEN Head(calls).res.data ELSE <<>>)
         \o Aggregated(Tail(calls))

SweepRaised(calls) == calls # <<>> /\ calls[Len(calls)].res.k = "raise"

\* the numbers of calls of one sweep after which the model lets the upstream
\* change: after the call for the requested date, or not at all
SplitPoints == {WindowDays + 1, 2 * WindowDays + 1}

\* cached_search_sweep on a miss, lines 448-454, and the insertion by
\* lru_cache when it returns; the upstream may change between two calls
Sweep(n, split, w) ==
    /\ tasks[n].pc = "sweep"
    /\ IF split = 2 * WindowDays + 1 THEN w = upstream
       ELSE changes < MaxChanges /\ w # upstream
    /\ \E calls \in {SweepCalls(tasks[n].req,
                                expand_dates(tasks[n].req.departure_date,
                                             tasks[n].req.return_date, WindowDays),
                                1, split, upstream.flights, w.flights)} :
        LET t == tasks[n]
            key == CacheKey(t.req)
            changed == Len(calls) > split
        IN  /\ upstream' = IF changed THEN w ELSE upstream
            /\ changes' = IF changed THEN changes + 1 ELSE changes
            /\ IF SweepRaised(calls)
               THEN /\ tasks' = [tasks EXCEPT ![n] =
                                   [t EXCEPT !.pc = "raised", !.calls = calls,
                                             !.endedAt = changes']]
                    /\ UNCHANGED <<cache, lastUse, evicted>>
               ELSE /\ tasks' = [tasks EXCEPT ![n] =
                                   [t EXCEPT !.pc = "analyse", !.calls = calls,
                                             !.aggregated = Aggregated(calls)]]
                    /\ cache' = CacheInsert(cache, [key |-> key,
                                                    value |-> Aggregated(calls),
                                                    sweptAt |-> t.sweptAt])
                    /\ lastUse' = Append(WithoutKey(lastUse, key), key)
                    /\ evicted' = evicted \cup (Keys(cache) \ Keys(cache'))
            /\ UNCHANGED <<history, plansVars>>

\* lines 46-185: filter, normalise, summarise, rank, explain, audit, return
Finish(n) ==
    LET t == tasks[n]
    IN  /\ t.pc = "analyse"
        /\ tasks' = [tasks EXCEPT ![n] =
                       [t EXCEPT !.pc = "returned",
                                 !.endedAt = changes,
                                 !.result = <<Analyse(t.aggregated, t.req.preferences,
                                                      Upper(t.req.currency),
                                                      upstream.fx, upstream.llm)>>]]
        /\ history' = IF upstream.store = "ok" THEN history + 1 ELSE history
        /\ UNCHANGED <<upstream, changes, cache, lastUse, evicted, plansVars>>

Next ==
    \/ \E w \in Worlds : UpstreamChange(w)
    \/ \E req \in Requests : Submit(req)
    \/ \E n \in DOMAIN tasks : Begin(n)
    \/ \E n \in {m \in DOMAIN tasks : tasks[m].pc = "sweep"} :
          \E split \in SplitPoints, w \in Worlds : Sweep(n, split, w)
    \/ \E n \in DOMAIN tasks : Finish(n)

Spec == Init /\ [][Next]_vars

(***************************************************************************)
(* The same process later in its life, with a full cache. The first        *)
(* request of Requests was swept while nothing was published; the upstream *)
(* may have changed since; the same request was then answered from the     *)
(* cache (the one call the log still holds), and after it Maxsize - 1      *)
(* other one-way trips, for which nothing is published, were swept.        *)
(***************************************************************************)
WarmRequests == {FirstRequest, SameTupleRequest, OtherRequest}

\* the n-th of those trips: departures on days 1 to 28 of the months of 2026
FillerKey(n) ==
    <<"CMB", "DXB", <<2026, 1 + ((n - 1) \div 28), 1 + ((n - 1) % 28)>>, NoDate, 1>>

WarmCache ==
    [n \in 1..Maxsize |->
        [key |-> IF n = 1 THEN CacheKey(FirstRequest) ELSE FillerKey(n - 1),
         value |-> <<>>,
         sweptAt |-> 0]]

\* the call answered from the cache
WarmTask(w, epoch) ==
    [NewTask(FirstRequest, {}) EXCEPT
        !.pc = "returned", !.hit = TRUE, !.tupleCached = TRUE,
        !.beganAt = epoch, !.sweptAt = 0, !.endedAt = epoch,
        !.result = <<Analyse(<<>>, FirstRequest.preferences,
                             Upper(FirstRequest.currency), w.fx, w.llm)>>]

InitWarm ==
    /\ upstream \in {w \in Worlds : w.flights # "broken"}
    /\ changes = IF upstream = QuietWorld THEN 0 ELSE 1
    /\ cache = WarmCache
    /\ lastUse = [n \in 1..Maxsize |-> WarmCache[n].key]
    /\ evicted = {}
    /\ tasks = <<WarmTask(upstream, changes)>>
    /\ history = IF upstream.store = "ok" THEN Maxsize + 1 ELSE 1
    /\ PlansIdle

SubmitWarm(req) == Arrive(req, MaxRequests + 1)

NextWarm ==
    \/ \E w \in Worlds : UpstreamChange(w)
    \/ \E req \in WarmRequests : SubmitWarm(req)
    \/ \E n \in DOMAIN tasks : Begin(n)
    \/ \E n \in {m \in DOMAIN tasks : tasks[m].pc = "sweep"} :
          \E split \in SplitPoints, w \in Worlds : Sweep(n, split, w)
    \/ \E n \in DOMAIN tasks : Finish(n)

SpecWarm == InitWarm /\ [][NextWarm]_vars

(***************************************************************************)
(* The process started while the flight search was not answering normally: *)
(* it answers with error markers, for all dates or for some, or raises an  *)
(* exception that is no ResponseError.                                     *)
(***************************************************************************)
OutageRequests == {FirstRequest, BadDateRequest}

InitOutage ==
    /\ upstream \in {w \in Worlds : w.flights # "empty"}
    /\ changes = 0
    /\ cache = <<>>
    /\ lastUse = <<>>
    /\ evicted = {}
    /\ tasks = <<>>
    /\ history = 0
    /\ PlansIdle

NextOutage ==
    \/ \E w \in Worlds : UpstreamChange(w)
    \/ \E req \in OutageRequests : Submit(req)
    \/ \E n \in DOMAIN tasks : Begin(n)
    \/ \E n \in {m \in DOMAIN tasks : tasks[m].pc = "sweep"} :
          \E split \in SplitPoints, w \in Worlds : Sweep(n, split, w)
    \/ \E n \in DOMAIN tasks : Finish(n)

SpecOutage == InitOutage /\ [][NextOutage]_vars

(***************************************************************************)
(* The analysis of one cached offer list under two preference sets. The    *)
(* sweep of the first request's tuple has been cached; one call for the    *)
(* tuple is past the cache lookup (line 44) and a second one, whose        *)
(* preferences differ in one field, is waiting for the event loop.         *)
(***************************************************************************)
StopChoices == {0, 1, 2}
CarrierChoices == {{}, {"EK"}, {"EK", "QR"}}
LayoverChoices == {0, 60, 120}
TravelTimeChoices == {-1, 0, 240, 600}
CabinChoices == {"ANY", "ECONOMY"}

PrefSet ==
    {Prefs(ms, re, pc, ml, mt, cc) :
        ms \in StopChoices, re \in BOOLEAN, pc \in CarrierChoices,
        ml \in LayoverChoices, mt \in TravelTimeChoices, cc \in CabinChoices}

\* the fields in which two preference sets differ
Differ(p, q) == {f \in DOMAIN p : p[f] # q[f]}

\* the first preference set is the default one but for one field at most, the
\* second one differs from the first in exactly one field
PrefPairs ==
    {pq \in {p \in PrefSet : Cardinality(Differ(p, DefaultPrefs)) <= 1} \X PrefSet :
        Cardinality(Differ(pq[1], pq[2])) = 1}

OfferIds ==
    {"A", "B", "C", "D", "G", "P", "N", "S", "Z",
     "R", "U", "K", "F", "V", "T", "H", "E", "Y", "L", "M"}

\* the offer lists a sweep may have aggregated: every offer alone, and some
\* lists of several offers
Batches ==
    {<<id>> : id \in OfferIds}
    \cup {<<>>,
          <<"A", "B", "C", "D", "G", "S", "R", "H">>,
          <<"A", "N", "P", "C">>,
          <<"Z", "P">>,
          <<"C", "A", "L", "E">>,
          <<"D", "A", "I", "J", "Q">>,
          <<"D", "A", "I", "J">>,
          <<"D", "A", "W">>}

BatchRequest(prefs) == [FirstRequest EXCEPT !.preferences = prefs]

BatchCache(batch) ==
    <<[key |-> CacheKey(FirstRequest), value |-> batch, sweptAt |-> 0]>>

\* the call that has got `batch` from the cache
BatchTask(batch, prefs) ==
    [NewTask(BatchRequest(prefs), {}) EXCEPT
        !.pc = "analyse", !.hit = TRUE, !.tupleCached = TRUE, !.aggregated = batch]

InitBatch ==
    /\ upstream \in Worlds
    /\ changes = 0
    /\ \E batch \in Batches, pq \in PrefPairs :
          /\ cache = BatchCache(batch)
          /\ tasks = <<BatchTask(batch, pq[1]), NewTask(BatchRequest(pq[2]), {1})>>
    /\ lastUse = <<CacheKey(FirstRequest)>>
    /\ evicted = {}
    /\ history = 0
    /\ PlansIdle

NextBatch ==
    \/ \E n \in DOMAIN tasks : Begin(n)
    \/ \E n \in DOMAIN tasks : Finish(n)

SpecBatch == InitBatch /\ [][NextBatch]_vars

(***************************************************************************)
(* Properties                                                              *)
(***************************************************************************)
Returned(t) == t.pc = "returned"

\* the call has run cached_search_sweep to its return
Swept(t) == ~t.hit /\ t.pc \in {"analyse", "returned"}

ResultOf(t) == t.result[1]

SameTuple(a, b) == RequestTuple(a.req) = RequestTuple(b.req)

\* C1: every call of execute_travel_analysis that ends, ends by returning a
\* result object; none ends by an exception that reaches the caller
C1_AlwaysReturnsResult ==
    \A n \in DOMAIN tasks :
        Finished(tasks[n]) => (tasks[n].pc = "returned" /\ tasks[n].result # <<>>)

EmptyOrError(res) == res.k = "error" \/ (res.k = "list" /\ res.data = <<>>)

EmptySweep(t) ==
    /\ Returned(t)
    /\ ~t.hit
    /\ t.calls # <<>>
    /\ \A i \in DOMAIN t.calls : EmptyOrError(t.calls[i].res)

\* C2: when every call of the sweep yields an empty list or the error
\* marker, the result has no summary, no recommendation, offers_considered
\* 0 and an explanation that is not empty
C2_EmptyUpstreamResult ==
    \A n \in DOMAIN tasks :
        EmptySweep(tasks[n]) =>
            /\ ResultOf(tasks[n]).summary = <<>>
            /\ ResultOf(tasks[n]).recommendation = <<>>
            /\ ResultOf(tasks[n]).top_recommendations = <<>>
            /\ ResultOf(tasks[n]).offers_considered = 0
            /\ ResultOf(tasks[n]).explanation.text # <<>>

\* an unreachable upstream: every date pair answered by the error marker
C2_Witness ==
    \E n \in DOMAIN tasks :
        /\ EmptySweep(tasks[n])
        /\ \A i \in DOMAIN tasks[n].calls : tasks[n].calls[i].res.k = "error"

\* the lists among the first n answers, one after the other
RECURSIVE ListsUpTo(_, _)
ListsUpTo(calls, n) ==
    IF n = 0 THEN <<>>
    ELSE ListsUpTo(calls, n - 1)
         \o (IF calls[n].res.k = "list" THEN calls[n].res.data ELSE <<>>)

\* C3: a sweep queries the date pairs of the window in order, each once; an
\* error marker does not end it; the list it returns is the concatenation,
\* in date order, of the lists the date pairs returned
C3_SweepQueriesEachPairOnce ==
    \A n \in DOMAIN tasks :
        LET t == tasks[n]
        IN  (~t.hit /\ t.pc \in {"analyse", "returned", "raised"}
                /\ ~ExpandRaises(t.req.departure_date, t.req.return_date)) =>
            \A dates \in {expand_dates(t.req.departure_date, t.req.return_date,
                                       WindowDays)} :
                /\ Len(t.calls) <= Len(dates)
                /\ \A i \in DOMAIN t.calls :
                      t.calls[i].dd = dates[i][1] /\ t.calls[i].rd = dates[i][2]
                /\ \A i, j \in DOMAIN t.calls :
                      i # j => t.calls[i].dd # t.calls[j].dd
                /\ \A i \in DOMAIN t.calls :
                      i < Len(t.calls) => t.calls[i].res.k # "raise"
                /\ t.pc = "raised" => SweepRaised(t.calls)
                /\ t.pc # "raised" =>
                      /\ Len(t.calls) = Len(dates)
                      /\ t.aggregated = ListsUpTo(t.calls, Len(t.calls))

\* a sweep in which an error marker is followed by a list of offers
C3_Witness ==
    \E n \in DOMAIN tasks :
        /\ Swept(tasks[n])
        /\ \E i, j \in DOMAIN tasks[n].calls :
              /\ i < j
              /\ tasks[n].calls[i].res.k = "error"
              /\ tasks[n].calls[j].res.k = "list"
              /\ tasks[n].calls[j].res.data # <<>>

CachedTuples == {SubSeq(cache[m].key, 1, 5) : m \in DOMAIN cache}
EvictedTuples == {SubSeq(k, 1, 5) : k \in evicted}

\* C4: once a sweep for a tuple has completed the tuple stays cached until
\* it is evicted, and a call whose tuple is cached makes no call to the
\* flight search, whatever its currency and preferences
C4_CachedTupleIssuesNoCalls ==
    /\ \A n \in DOMAIN tasks :
          Swept(tasks[n]) =>
              RequestTuple(tasks[n].req) \in CachedTuples \cup EvictedTuples
    /\ \A n \in DOMAIN tasks :
          (tasks[n].pc # "pending" /\ tasks[n].tupleCached) =>
              /\ tasks[n].hit
              /\ tasks[n].calls = <<>>
              /\ tasks[n].pc # "raised"

\* a call answered from the cache for a request that differs in currency and
\* preferences from an earlier one of the same tuple, after an eviction
C4_Witness ==
    /\ evicted # {}
    /\ \E a, b \in DOMAIN tasks :
          /\ a < b
          /\ SameTuple(tasks[a], tasks[b])
          /\ tasks[a].req.currency # tasks[b].req.currency
          /\ tasks[a].req.preferences # tasks[b].req.preferences
          /\ Returned(tasks[b])
          /\ tasks[b].tupleCached
          /\ tasks[b].calls = <<>>

\* the cached key whose last use (insertion or hit) is the oldest: lastUse
\* holds every key once, in the order of their last uses
LeastRecent ==
    CHOOSE k \in {SelectSeq(lastUse, LAMBDA x : x \in ks)[1] : ks \in {Keys(cache)}} :
        TRUE

\* what one step may do to the keys of the cache
C5_Step ==
    \/ cache' = cache
    \/ \A gone \in {Keys(cache) \ Keys(cache')}, new \in {Keys(cache') \ Keys(cache)} :
          /\ Cardinality(new) <= 1
          /\ gone # {} => (new # {} /\ Len(cache) = Maxsize)
          /\ (new # {} /\ Len(cache) = Maxsize) => gone = {LeastRecent}
          /\ (new # {} /\ Len(cache) < Maxsize) => gone = {}

\* C5: the cache never holds more than 64 tuples, and a sweep of a new tuple
\* that completes while the cache is full removes the least recently used
\* tuple and no other
C5_BoundedLru ==
    /\ [](Len(cache) <= 64 /\ Cardinality(Keys(cache)) = Len(cache))
    /\ [][C5_Step]_vars

\* the first request was used again, so that the tuple evicted by the next
\* new tuple is the oldest of the others
C5_Witness ==
    /\ Len(cache) = Maxsize
    /\ FillerKey(1) \in evicted
    /\ CacheKey(FirstRequest) \in Keys(cache)

Overlap(a, b) == a \in tasks[b].overlap \/ b \in tasks[a].overlap

\* C6: of the requests with one tuple that are in flight together while the
\* tuple is not cached, one sweeps the flight search and populates the
\* cache; every other one that gets to run is answered from that entry
C6_PopulatedOnce ==
    \A a, b \in DOMAIN tasks :
        (a # b /\ SameTuple(tasks[a], tasks[b]) /\ Overlap(a, b) /\ Swept(tasks[a])) =>
            \/ tasks[b].pc = "pending"
            \/ tasks[b].pc = "raised"
            \/ /\ tasks[b].hit
               /\ tasks[b].calls = <<>>
               /\ tasks[b].aggregated = tasks[a].aggregated

C6_Witness ==
    \E a, b \in DOMAIN tasks :
        /\ a # b
        /\ SameTuple(tasks[a], tasks[b])
        /\ Overlap(a, b)
        /\ Swept(tasks[a])
        /\ tasks[a].aggregated # <<>>
        /\ Returned(tasks[b])
        /\ tasks[b].hit

\* C7: without a return date a sweep queries the 7 departure dates D-3 to
\* D+3 in ascending order, each with no return date
C7_OneWayWindow ==
    \A n \in DOMAIN tasks :
        LET t == tasks[n]
        IN  (Swept(t) /\ t.req.return_date = NoDate) =>
            /\ Len(t.calls) = 7
            /\ t.calls[4].dd = t.req.departure_date
            /\ \A i \in 1..6 : t.calls[i + 1].dd = NextDay(t.calls[i].dd)
            /\ \A i \in 1..7 : t.calls[i].rd = NoDate
            /\ t.req.departure_date = <<2025, 6, 10>> =>
                  [i \in 1..7 |-> t.calls[i].dd] =
                      <<<<2025, 6, 7>>, <<2025, 6, 8>>, <<2025, 6, 9>>, <<2025, 6, 10>>,
                        <<2025, 6, 11>>, <<2025, 6, 12>>, <<2025, 6, 13>>>>

C7_Witness ==
    \E n \in DOMAIN tasks :
        /\ Swept(tasks[n])
        /\ tasks[n].req.return_date = NoDate
        /\ tasks[n].req.departure_date = <<2025, 6, 10>>

\* C8 as stated: a sweep has 7 date pairs without a return date and 8 with
\* one
C8_SevenOrEight ==
    \A n \in DOMAIN tasks :
        Swept(tasks[n]) =>
            Len(tasks[n].calls) = IF tasks[n].req.return_date = NoDate THEN 7 ELSE 8

\* C8 amended: a sweep has 7 date pairs with or without a return date; with
\* one, the pairs are (D+k, R+k) for k from -3 to 3
C8_SevenPairs ==
    \A n \in DOMAIN tasks :
        LET t == tasks[n]
        IN  Swept(t) =>
            /\ Len(t.calls) = 7
            /\ t.req.return_date # NoDate =>
                  /\ t.calls[4].dd = t.req.departure_date
                  /\ t.calls[4].rd = t.req.return_date
                  /\ \A i \in 1..6 :
                        /\ t.calls[i + 1].dd = NextDay(t.calls[i].dd)
                        /\ t.calls[i + 1].rd = NextDay(t.calls[i].rd)

C8_Witness ==
    \E n \in DOMAIN tasks : Swept(tasks[n]) /\ tasks[n].req.return_date # NoDate

\* the upstream has not changed from the start of the earlier of two calls
\* to the end of the later one
Unchanged(a, b) == a.beganAt = b.endedAt /\ b.beganAt = a.endedAt

SameAnswer(a, b) ==
    /\ ResultOf(a).summary = ResultOf(b).summary
    /\ ResultOf(a).recommendation = ResultOf(b).recommendation

\* C9 as stated: two calls with one request, the upstream unchanged from the
\* first to the second, return the same summary and recommendation, also
\* when the second sweeps again after an eviction
C9_SameRequestSameAnswer ==
    \A a, b \in DOMAIN tasks :
        (a # b /\ Returned(tasks[a]) /\ Returned(tasks[b])
            /\ tasks[a].req = tasks[b].req /\ Unchanged(tasks[a], tasks[b])) =>
            SameAnswer(tasks[a], tasks[b])

\* C9 amended: they do when, in addition, the offer lists of both calls were
\* swept from the same upstream data: both from one cache entry, or in
\* sweeps begun since the upstream last changed
C9_SameDataSameAnswer ==
    \A a, b \in DOMAIN tasks :
        (a # b /\ Returned(tasks[a]) /\ Returned(tasks[b])
            /\ tasks[a].req = tasks[b].req /\ Unchanged(tasks[a], tasks[b])
            /\ tasks[a].sweptAt = tasks[b].sweptAt) =>
            SameAnswer(tasks[a], tasks[b])

\* a call answered from the cache, and the same request swept again after
\* the eviction of its tuple
C9_Witness ==
    \E a, b \in DOMAIN tasks :
        /\ a < b
        /\ Returned(tasks[a]) /\ Returned(tasks[b])
        /\ tasks[a].req = tasks[b].req
        /\ Unchanged(tasks[a], tasks[b])
        /\ tasks[a].sweptAt = tasks[b].sweptAt
        /\ tasks[a].hit /\ ~tasks[b].hit
        /\ CacheKey(tasks[a].req) \in evicted

\* C10: the summary counts the offers of offers_considered; it is absent
\* exactly when offers_considered is 0, and then there is no recommendation
C10_SummaryCoversOffersConsidered ==
    \A n \in DOMAIN tasks :
        Returned(tasks[n]) =>
            LET r == ResultOf(tasks[n])
            IN  /\ r.summary # <<>> => r.summary[1].count = r.offers_considered
                /\ r.summary = <<>> <=> r.offers_considered = 0
                /\ r.offers_considered = 0 => r.recommendation = <<>>

(***************************************************************************)
(* Ranking, annotation and explanation                                     *)
(***************************************************************************)
\* the offers that lines 46-88 keep of the list a call analyses, with the
\* FX answers of the moment
Survivors(t) ==
    ProcessOffers(t.aggregated, t.req.preferences, Upper(t.req.currency),
                  upstream.fx).offers

\* the median the scores of a result are taken against
TargetOf(r) == IF r.summary # <<>> THEN <<r.summary[1].median>> ELSE <<>>

\* C11: top_recommendations has min(3, offers_considered) entries in
\* ascending order of score; recommendation is an offer of the lowest score
\* among all surviving offers when there is one, and absent otherwise
C11_TopThreeByScore ==
    \A n \in DOMAIN tasks :
        Returned(tasks[n]) =>
            \A r \in {ResultOf(tasks[n])}, survivors \in {Survivors(tasks[n])} :
                /\ r.offers_considered = Len(survivors)
                /\ Len(r.top_recommendations) =
                      (IF r.offers_considered < 3 THEN r.offers_considered ELSE 3)
                /\ \A i \in 1..(Len(r.top_recommendations) - 1) :
                      Score(r.top_recommendations[i], TargetOf(r))
                          <= Score(r.top_recommendations[i + 1], TargetOf(r))
                /\ r.offers_considered = 0 => r.recommendation = <<>>
                /\ r.offers_considered > 0 =>
                      /\ r.recommendation # <<>>
                      /\ \E i \in DOMAIN survivors : survivors[i] = r.recommendation[1]
                      /\ \A i \in DOMAIN survivors :
                            Score(r.recommendation[1], TargetOf(r))
                                <= Score(survivors[i], TargetOf(r))

\* more than three offers survive, and the order of the scores is not the
\* order of the prices
C11_Witness ==
    \E n \in DOMAIN tasks :
        /\ Returned(tasks[n])
        /\ ResultOf(tasks[n]).offers_considered > 3
        /\ ResultOf(tasks[n]).top_recommendations[3].price
              < ResultOf(tasks[n]).top_recommendations[2].price

\* C12: when an offer survives, recommendation carries the pros and cons
\* lists and is the first element of top_recommendations
C12_RecommendationIsRankedOffer ==
    \A n \in DOMAIN tasks :
        (Returned(tasks[n]) /\ ResultOf(tasks[n]).offers_considered > 0) =>
            \A r \in {ResultOf(tasks[n])} :
                /\ r.recommendation # <<>>
                /\ {"pros", "cons"} \subseteq DOMAIN r.recommendation[1]
                /\ r.recommendation[1] = r.top_recommendations[1]

\* C13: the explanation of every result is a non-empty text, whatever the
\* explanation collaborator does
C13_ExplanationNeverEmpty ==
    \A n \in DOMAIN tasks :
        Returned(tasks[n]) => ResultOf(tasks[n]).explanation.text # <<>>

(***************************************************************************)
(* Malformed offers                                                        *)
(***************************************************************************)
\* reading the offer raises: the price does not parse, or a field of a
\* segment is null or ill-typed
Malformed(id) ==
    \/ Catalog(id).price.k = "text"
    \/ \E n \in DOMAIN AllSegs(Catalog(id).itineraries) :
          LET seg == AllSegs(Catalog(id).itineraries)[n]
          IN  \/ IntRaises(seg.numberOfStops)
              \/ seg.operating.k = "null"
              \/ seg.departure.k = "null"
              \/ seg.arrival.k = "null"

WithoutMalformed(batch) == SelectSeq(batch, LAMBDA id : ~Malformed(id))

\* C14: the offers included, the summary and the ranking of a result are
\* those of the same list without its malformed offers
C14_MalformedSkippedAlone ==
    \A n \in DOMAIN tasks :
        Returned(tasks[n]) =>
            \A r \in {ResultOf(tasks[n])},
               q \in {Analyse(WithoutMalformed(tasks[n].aggregated),
                              tasks[n].req.preferences, Upper(tasks[n].req.currency),
                              upstream.fx, upstream.llm)} :
                /\ r.offers_considered = q.offers_considered
                /\ r.summary = q.summary
                /\ r.top_recommendations = q.top_recommendations
                /\ r.recommendation = q.recommendation

(***************************************************************************)
(* Filters                                                                 *)
(***************************************************************************)
\* two calls that have analysed the same offer list for the same currency
SameBatch(a, b) ==
    /\ Returned(a) /\ Returned(b)
    /\ a.aggregated = b.aggregated
    /\ a.req.currency = b.req.currency

\* q is p made stricter in the fields other than the preferred carriers
StricterElsewhere(q, p) ==
    /\ q.max_stops <= p.max_stops
    /\ q.min_layover_minutes >= p.min_layover_minutes
    /\ \/ q.max_total_travel_minutes = p.max_total_travel_minutes
       \/ /\ q.max_total_travel_minutes > 0
          /\ q.max_total_travel_minutes < p.max_total_travel_minutes
    /\ p.exclude_redeye => q.exclude_redeye
    /\ q.cabin_class = p.cabin_class

\* C15 as stated: a stricter constraint set, where any subset of a non-empty
\* preferred-carrier set counts as stricter, never increases offers_considered
C15_StricterNeverMore ==
    \A a, b \in DOMAIN tasks :
        (SameBatch(tasks[a], tasks[b])
            /\ StricterElsewhere(tasks[b].req.preferences, tasks[a].req.preferences)
            /\ \/ tasks[b].req.preferences.preferred_carriers
                     = tasks[a].req.preferences.preferred_carriers
               \/ /\ tasks[a].req.preferences.preferred_carriers # {}
                  /\ tasks[b].req.preferences.preferred_carriers
                        \subseteq tasks[a].req.preferences.preferred_carriers) =>
            ResultOf(tasks[b]).offers_considered <= ResultOf(tasks[a]).offers_considered

\* C15 amended: the same, where only a non-empty subset of the preferred
\* carriers counts as stricter
C15_StricterNonEmptyNeverMore ==
    \A a, b \in DOMAIN tasks :
        (SameBatch(tasks[a], tasks[b])
            /\ StricterElsewhere(tasks[b].req.preferences, tasks[a].req.preferences)
            /\ \/ tasks[b].req.preferences.preferred_carriers
                     = tasks[a].req.preferences.preferred_carriers
               \/ /\ tasks[b].req.preferences.preferred_carriers # {}
                  /\ tasks[b].req.preferences.preferred_carriers
                        \subseteq tasks[a].req.preferences.preferred_carriers) =>
            ResultOf(tasks[b]).offers_considered <= ResultOf(tasks[a]).offers_considered

\* a smaller, non-empty set of preferred carriers leaves fewer offers
C15_Witness ==
    \E a, b \in DOMAIN tasks :
        /\ SameBatch(tasks[a], tasks[b])
        /\ StricterElsewhere(tasks[b].req.preferences, tasks[a].req.preferences)
        /\ tasks[b].req.preferences.preferred_carriers # {}
        /\ tasks[b].req.preferences.preferred_carriers
              # tasks[a].req.preferences.preferred_carriers
        /\ tasks[b].req.preferences.preferred_carriers
              \subseteq tasks[a].req.preferences.preferred_carriers
        /\ ResultOf(tasks[b]).offers_considered < ResultOf(tasks[a]).offers_considered

\* two calls on the same single offer whose preferences differ in field f only
OneOffer(a, b, f) ==
    /\ SameBatch(a, b)
    /\ Len(a.aggregated) = 1
    /\ Differ(a.req.preferences, b.req.preferences) = {f}

\* the single offer of a call and whether the call's result includes it
TheOffer(t) == Catalog(t.aggregated[1])
Kept(t) == ResultOf(t).offers_considered = 1

\* C16: an offer that a stop limit of at least its stop count lets through is
\* included under another stop limit exactly when the stop counts of all
\* segments of all its itineraries together do not exceed that limit
C16_StopsSummedOverAllItineraries ==
    \A a, b \in DOMAIN tasks :
        (OneOffer(tasks[a], tasks[b], "max_stops")
            /\ SumStops(AllSegs(TheOffer(tasks[a]).itineraries))
                  <= tasks[a].req.preferences.max_stops) =>
            (Kept(tasks[b]) <=>
                /\ Kept(tasks[a])
                /\ SumStops(AllSegs(TheOffer(tasks[b]).itineraries))
                      <= tasks[b].req.preferences.max_stops)

\* C17: an offer included with cabin ANY is left out with another cabin class
\* only when its first traveler pricing carries a cabin that differs from the
\* requested one; absent fare-cabin data never drops it
C17_AbsentCabinNeverDropped ==
    \A a, b \in DOMAIN tasks :
        (OneOffer(tasks[a], tasks[b], "cabin_class")
            /\ tasks[a].req.preferences.cabin_class = "ANY"
            /\ Kept(tasks[a]) /\ ~Kept(tasks[b])) =>
            /\ TheOffer(tasks[b]).travelerPricings.k = "cabin"
            /\ Upper(TheOffer(tasks[b]).travelerPricings.c)
                  \notin {"", tasks[b].req.preferences.cabin_class}

\* some segment departs, by a timestamp that parses, before 05:00
DepartsBeforeFive(offer) ==
    \E n \in DOMAIN AllSegs(offer.itineraries) :
        /\ AllSegs(offer.itineraries)[n].departure.k = "at"
        /\ AllSegs(offer.itineraries)[n].departure.t % 1440 < 300

\* C18: with exclude_redeye enabled an offer is left out exactly when it is
\* left out with exclude_redeye disabled or some segment has a parseable
\* departure timestamp of hour 0 to 4; disabled, the hour rejects nothing
C18_RedEyeExcludedIffEnabled ==
    \A a, b \in DOMAIN tasks :
        (OneOffer(tasks[a], tasks[b], "exclude_redeye")
            /\ tasks[b].req.preferences.exclude_redeye) =>
            (Kept(tasks[b]) <=>
                (Kept(tasks[a]) /\ ~DepartsBeforeFive(TheOffer(tasks[b]))))

\* the offer with one segment departing at 03:00 is excluded when enabled and
\* included when disabled
C18_Witness ==
    \E a, b \in DOMAIN tasks :
        /\ OneOffer(tasks[a], tasks[b], "exclude_redeye")
        /\ tasks[b].req.preferences.exclude_redeye
        /\ Len(AllSegs(TheOffer(tasks[b]).itineraries)) = 1
        /\ AllSegs(TheOffer(tasks[b]).itineraries)[1].departure
              = [k |-> "at", t |-> Hm(3, 0)]
        /\ Kept(tasks[a])
        /\ ~Kept(tasks[b])

\* the carrier code of a segment, the operating one before the marketing one,
\* is one of the preferred codes
CarrierPreferred(seg, preferred) ==
    IF seg.operating.k = "code" /\ seg.operating.c # ""
    THEN Upper(seg.operating.c) \in preferred
    ELSE Upper(seg.carrierCode) \in preferred

\* C19: with a non-empty preferred-carrier set an offer is included exactly
\* when it is included without one and the carrier code of every segment of
\* every itinerary is a member of the set
C19_EverySegmentCarrierPreferred ==
    \A a, b \in DOMAIN tasks :
        (OneOffer(tasks[a], tasks[b], "preferred_carriers")
            /\ tasks[a].req.preferences.preferred_carriers = {}) =>
            (Kept(tasks[b]) <=>
                /\ Kept(tasks[a])
                /\ \A n \in DOMAIN AllSegs(TheOffer(tasks[b]).itineraries) :
                      CarrierPreferred(AllSegs(TheOffer(tasks[b]).itineraries)[n],
                                       tasks[b].req.preferences.preferred_carriers))

\* the minutes of a segment: those of its PT#H#M duration when it has one,
\* otherwise arrival minus departure (nothing when a timestamp cannot be read)
DurationMinutes(seg) ==
    IF seg.duration.k = "pt" THEN 60 * seg.duration.h + seg.duration.m
    ELSE IF seg.departure.k = "at" /\ seg.arrival.k = "at"
         THEN seg.arrival.t - seg.departure.t
    ELSE 0

RECURSIVE SumMinutes(_)
SumMinutes(segs) ==
    IF segs = <<>> THEN 0 ELSE DurationMinutes(Head(segs)) + SumMinutes(Tail(segs))

\* C20: with a ceiling above 0 an offer is included exactly when it is
\* included without a ceiling and the minutes of all segments of all its
\* itineraries together do not exceed the ceiling; a ceiling of 0 or less
\* rejects nothing
C20_TravelTimeCeiling ==
    \A a, b \in DOMAIN tasks :
        (OneOffer(tasks[a], tasks[b], "max_total_travel_minutes")
            /\ tasks[a].req.preferences.max_total_travel_minutes <= 0) =>
            IF tasks[b].req.preferences.max_total_travel_minutes > 0
            THEN Kept(tasks[b]) <=>
                    /\ Kept(tasks[a])
                    /\ SumMinutes(AllSegs(TheOffer(tasks[b]).itineraries))
                          <= tasks[b].req.preferences.max_total_travel_minutes
            ELSE Kept(tasks[b]) <=> Kept(tasks[a])

\* an offer whose duration string exceeds the ceiling while its clock times
\* do not is included without a ceiling and left out with it
C20_Witness ==
    \E a, b \in DOMAIN tasks :
        /\ OneOffer(tasks[a], tasks[b], "max_total_travel_minutes")
        /\ tasks[a].req.preferences.max_total_travel_minutes = 0
        /\ tasks[b].req.preferences.max_total_travel_minutes > 0
        /\ SumMinutes(AllSegs(TheOffer(tasks[b]).itineraries))
              > tasks[b].req.preferences.max_total_travel_minutes
        /\ \A n \in DOMAIN AllSegs(TheOffer(tasks[b]).itineraries) :
              AllSegs(TheOffer(tasks[b]).itineraries)[n].duration.k = "pt"
        /\ Kept(tasks[a])
        /\ ~Kept(tasks[b])

(***************************************************************************)
(* Currency                                                                *)
(***************************************************************************)
\* the currency an offer is priced in, as lines 53-54 read it
NativeCurrency(id) ==
    Upper(IF Catalog(id).price.currency = "" THEN "USD" ELSE Catalog(id).price.currency)

\* the price of offer id in currency `to` by the lookup order identity,
\* static table, live rate, 1:1 fallback; rates in thousandths
ByLookupOrder(id, to, fx) ==
    IF NativeCurrency(id) = to THEN Catalog(id).price.total
    ELSE IF NativeCurrency(id) = "EUR" /\ to = "USD"
         THEN Round2(Catalog(id).price.total * 1080)
    ELSE IF NativeCurrency(id) = "USD" /\ to = "EUR"
         THEN Round2(Catalog(id).price.total * 930)
    ELSE IF fx.k = "rate" /\ fx.rate # 0
         THEN Round2(Catalog(id).price.total * fx.rate)
    ELSE Catalog(id).price.total

\* C21: every price of a result is the one of the lookup order identity,
\* static table, live rate, 1:1 fallback, and an offer of positive price that
\* is included under a working live lookup is included, with a positive
\* price, whatever the live lookup does
C21_LookupOrder ==
    \A n \in DOMAIN tasks :
        Returned(tasks[n]) =>
            \A r \in {ResultOf(tasks[n])} :
                /\ \A i \in DOMAIN r.top_recommendations :
                      /\ r.top_recommendations[i].price > 0
                      /\ r.top_recommendations[i].price =
                            ByLookupOrder(r.top_recommendations[i].id,
                                          Upper(tasks[n].req.currency), upstream.fx)
                /\ r.offers_considered =
                      Len(ProcessOffers(tasks[n].aggregated, tasks[n].req.preferences,
                                        Upper(tasks[n].req.currency), LiveFx(1250)).offers)

\* an offer priced in a currency outside the static table is included at its
\* unconverted amount while the live lookup raises
C21_Witness ==
    \E n \in DOMAIN tasks :
        /\ Returned(tasks[n])
        /\ upstream.fx = FxRaises
        /\ \E i \in DOMAIN ResultOf(tasks[n]).top_recommendations :
              /\ NativeCurrency(ResultOf(tasks[n]).top_recommendations[i].id) = "GBP"
              /\ ResultOf(tasks[n]).top_recommendations[i].price
                    = Catalog(ResultOf(tasks[n]).top_recommendations[i].id).price.total

\* C22: every price of a result, and the summary's min and max, has at most
\* two decimals (prices in mills, statistics in quarter-mills)
C22_PricesRoundedToCents ==
    \A n \in DOMAIN tasks :
        Returned(tasks[n]) =>
            \A r \in {ResultOf(tasks[n])} :
                /\ \A i \in DOMAIN r.top_recommendations :
                      r.top_recommendations[i].price % 10 = 0
                /\ r.summary # <<>> =>
                      (r.summary[1].min % 40 = 0 /\ r.summary[1].max % 40 = 0)

(***************************************************************************)
(* Statistics and ranking                                                  *)
(***************************************************************************)
\* the prices a call's summary covers
CoveredPrices(t) ==
    ProcessOffers(t.aggregated, t.req.preferences, Upper(t.req.currency),
                  upstream.fx).prices

\* linear interpolation between closest ranks, times 4: k = (n-1)*p/100,
\* f = floor(k), c = ceil(k); v is indexed from 0 in the claim, from 1 here
Interpolated(v, p) ==
    LET k4 == (Len(v) - 1) * (p \div 25)
        f == k4 \div 4
        c == IF k4 % 4 = 0 THEN f ELSE f + 1
    IN  IF f = c THEN 4 * v[f + 1]
        ELSE v[f + 1] * (4 * c - k4) + v[c + 1] * (k4 - 4 * f)

\* the median of sorted values, times 4
MiddleOf(v) ==
    IF Len(v) % 2 = 1 THEN 4 * v[(Len(v) + 1) \div 2]
    ELSE 2 * (v[Len(v) \div 2] + v[Len(v) \div 2 + 1])

\* C23: p25 and p75 of a summary are the linear interpolation between closest
\* ranks of the sorted prices and the median is the median of sorted values;
\* for [10, 20, 30, 40] they are 17.5, 32.5 and 25
C23_PercentileInterpolates ==
    /\ percentile(<<10000, 20000, 30000, 40000>>, 25) = 4 * 17500
    /\ percentile(<<10000, 20000, 30000, 40000>>, 75) = 4 * 32500
    /\ median(<<10000, 20000, 30000, 40000>>) = 4 * 25000
    /\ \A n \in DOMAIN tasks :
          Returned(tasks[n]) =>
              \A v \in {sorted(CoveredPrices(tasks[n]))} :
                  v # <<>> =>
                      /\ ResultOf(tasks[n]).summary # <<>>
                      /\ ResultOf(tasks[n]).summary[1].p25 = Interpolated(v, 25)
                      /\ ResultOf(tasks[n]).summary[1].p75 = Interpolated(v, 75)
                      /\ ResultOf(tasks[n]).summary[1].median = MiddleOf(v)

\* the summary of the prices [90, 100, 110, 200]: p25 97.5, median 105,
\* p75 132.5, each between two of the prices
C23_Witness ==
    \E n \in DOMAIN tasks :
        /\ Returned(tasks[n])
        /\ sorted(CoveredPrices(tasks[n])) = <<90000, 100000, 110000, 200000>>
        /\ ResultOf(tasks[n]).summary[1].p25 = 4 * 97500
        /\ ResultOf(tasks[n]).summary[1].median = 4 * 105000
        /\ ResultOf(tasks[n]).summary[1].p75 = 4 * 132500

\* the prices of a list of offers, in order
PricesOf(offers) == [i \in DOMAIN offers |-> offers[i].price]

\* C24: when the surviving offers are priced 90, 100, 110 and 200 and the
\* summary's median is 100, the top three are priced 100, 90, 110 in that order
C24_TopThreeExample ==
    \A n \in DOMAIN tasks :
        (Returned(tasks[n])
            /\ PricesOf(Survivors(tasks[n])) = <<90000, 100000, 110000, 200000>>
            /\ ResultOf(tasks[n]).summary # <<>>
            /\ ResultOf(tasks[n]).summary[1].median = 4 * 100000) =>
            PricesOf(ResultOf(tasks[n]).top_recommendations)
                = <<100000, 90000, 110000>>

\* a result with surviving offers priced 90, 100, 110 and 200 whose summary
\* has the median 100, and its top three
C24_Witness ==
    \E n \in DOMAIN tasks :
        /\ Returned(tasks[n])
        /\ PricesOf(Survivors(tasks[n])) = <<90000, 100000, 110000, 200000>>
        /\ ResultOf(tasks[n]).summary # <<>>
        /\ ResultOf(tasks[n]).summary[1].median = 4 * 100000
        /\ ResultOf(tasks[n]).offers_considered = 4
        /\ PricesOf(ResultOf(tasks[n]).top_recommendations)
              = <<100000, 90000, 110000>>

\* four times the distance of a ranked offer's price from the summary's median
Distance(t, i) ==
    Abs(4 * ResultOf(t).top_recommendations[i].price - ResultOf(t).summary[1].median)

C26_SingleOfferNoSummary ==
    \A n \in DOMAIN tasks :
        (Returned(tasks[n]) /\ ResultOf(tasks[n]).offers_considered = 1) =>
            /\ ResultOf(tasks[n]).summary = <<>>
            /\ ResultOf(tasks[n]).top_recommendations[1].pros
                  \in {<<>>, <<"non-stop segments">>}
            /\ ResultOf(tasks[n]).top_recommendations[1].cons
                  \in {<<>>, <<"one or more stops">>}

\* C28: a summary covers strictly positive prices only, its statistics are in
\* the order 0 < min <= p25 <= median <= p75 <= max, and with one covered
\* price all five equal that price
C28_SummaryOrdered ==
    \A n \in DOMAIN tasks :
        (Returned(tasks[n]) /\ ResultOf(tasks[n]).summary # <<>>) =>
            \A s \in {ResultOf(tasks[n]).summary[1]}, v \in {CoveredPrices(tasks[n])} :
                /\ s.count = Len(v)
                /\ \A i \in DOMAIN v : v[i] > 0
                /\ 0 < s.min
                /\ s.min <= s.p25
                /\ s.p25 <= s.median
                /\ s.median <= s.p75
                /\ s.p75 <= s.max
                /\ s.count = 1 =>
                      /\ s.min = 4 * v[1]
                      /\ s.p25 = 4 * v[1]
                      /\ s.median = 4 * v[1]
                      /\ s.p75 = 4 * v[1]
                      /\ s.max = 4 * v[1]

\* a summary of several prices whose five statistics all differ
C28_Witness ==
    \E n \in DOMAIN tasks :
        /\ Returned(tasks[n])
        /\ ResultOf(tasks[n]).summary # <<>>
        /\ ResultOf(tasks[n]).summary[1].count > 1
        /\ 0 < ResultOf(tasks[n]).summary[1].min
        /\ ResultOf(tasks[n]).summary[1].min < ResultOf(tasks[n]).summary[1].p25
        /\ ResultOf(tasks[n]).summary[1].p25 < ResultOf(tasks[n]).summary[1].median
        /\ ResultOf(tasks[n]).summary[1].median < ResultOf(tasks[n]).summary[1].p75
        /\ ResultOf(tasks[n]).summary[1].p75 < ResultOf(tasks[n]).summary[1].max

(***************************************************************************)
(* Sweeps that met errors                                                  *)
(***************************************************************************)
\* the call has swept and its sweep has returned
SweptAndReturned(t) == ~t.hit /\ t.pc \in {"analyse", "returned"}

\* the list a returned sweep has aggregated is in the cache, with or without
\* error markers; a call answered from the cache has made no upstream call
\* and analyses the cached list; every entry comes from a sweep that returned
StoredWhateverTheMarkers ==
    /\ \A n \in DOMAIN tasks :
          SweptAndReturned(tasks[n]) =>
              /\ CacheKey(tasks[n].req) \in Keys(cache)
              /\ Lookup(cache, CacheKey(tasks[n].req)).value = tasks[n].aggregated
    /\ \A n \in DOMAIN tasks :
          tasks[n].hit =>
              /\ tasks[n].calls = <<>>
              /\ tasks[n].aggregated = Lookup(cache, CacheKey(tasks[n].req)).value
    /\ \A m \in DOMAIN cache :
          \E n \in DOMAIN tasks :
              /\ SweptAndReturned(tasks[n])
              /\ CacheKey(tasks[n].req) = cache[m].key

\* a sweep that ends by an exception leaves the cache as it was, and a call
\* that finds no entry for its key sweeps
RaisedSweepStoresNothing ==
    \A n \in DOMAIN tasks :
        /\ (tasks[n].pc # "raised" /\ tasks'[n].pc = "raised") => cache' = cache
        /\ (tasks[n].pc = "pending" /\ tasks'[n].pc # "pending"
                /\ CacheKey(tasks[n].req) \notin Keys(cache)) =>
              (~tasks'[n].hit /\ tasks'[n].pc \in {"sweep", "raised"})

\* C27: a sweep's result is cached whether or not date pairs returned error
\* markers, and a later identical request gets that list without a call to
\* the collaborator; a sweep ended by an exception leaves the cache
\* unchanged, so that the next identical request sweeps again
C27_ErrorSweepsCached ==
    []StoredWhateverTheMarkers /\ [][RaisedSweepStoresNothing]_vars

\* every date pair of a sweep returned an error marker, the collaborator has
\* recovered since, and an identical request was answered from the cache
\* with no offers
C27_Witness ==
    \E a, b \in DOMAIN tasks :
        /\ a # b
        /\ CacheKey(tasks[a].req) = CacheKey(tasks[b].req)
        /\ SweptAndReturned(tasks[a])
        /\ tasks[a].calls # <<>>
        /\ \A i \in DOMAIN tasks[a].calls : tasks[a].calls[i].res.k = "error"
        /\ upstream.flights = "rich"
        /\ tasks[b].hit
        /\ tasks[b].beganAt > tasks[a].endedAt
        /\ Returned(tasks[b])
        /\ tasks[b].calls = <<>>
        /\ ResultOf(tasks[b]).offers_considered = 0

(***************************************************************************)
(* Plan generation: POST /generate-travel-plan (routers/plans.py) and the  *)
(* limits of crud.py. The user document lives in the database, which the   *)
(* server processes share. A process runs one handler at a time, since     *)
(* nothing in the handler suspends: the crud coroutines contain no await   *)
(* and ask_grok is a blocking call. Handlers of different processes        *)
(* interleave at their database operations. The database operations of     *)
(* one crud function are taken as one step.                                *)
(***************************************************************************)
TicksPerDay == 2

\* datetime.date() of an instant
DateOf(t) == t \div TicksPerDay

\* the server processes connected to the one database (database.py, line 19)
Workers == {1, 2}

\* the document after upgrade_to_premium (crud.py, lines 300-306)
PremiumAccount(expiry) ==
    [BasicAccount EXCEPT !.subscription_type = "premium",
                         !.subscription_expiry = <<expiry>>]

NewPlanCall(w) ==
    [worker |-> w, pc |-> "queued", current_user |-> <<>>, expired |-> FALSE,
     asBasic |-> FALSE, checkedAt |-> 0, form |-> "none", deliveredAt |-> 0]

\* crud.py, lines 236-245: the premium subscription has run out
Expired(user, now) ==
    /\ user.subscription_type = "premium"
    /\ ~(user.subscription_expiry # <<>> /\ user.subscription_expiry[1] > now)

\* crud.py, lines 223-267: the document it leaves and the value it returns
check_can_generate_plan(user, now) ==
    IF user.subscription_type = "premium" /\ ~Expired(user, now)
    THEN [doc |-> user, can |-> TRUE]
    ELSE LET downgraded ==
                 IF Expired(user, now)
                 THEN [user EXCEPT !.subscription_type = "basic",
                                   !.subscription_expiry = <<>>]
                 ELSE user
             reset == /\ user.last_plan_date # <<>>
                      /\ DateOf(user.last_plan_date[1]) # DateOf(now)
         IN  IF reset
             THEN [doc |-> [downgraded EXCEPT !.plans_today = 0,
                                              !.last_plan_date = <<now>>],
                   can |-> TRUE]
             ELSE [doc |-> downgraded, can |-> user.plans_today < 1]

\* crud.py, lines 269-290
update_plan_generation(user, now) ==
    IF user.subscription_type = "basic"
    THEN [user EXCEPT !.last_plan_date = <<now>>, !.plans_today = @ + 1]
    ELSE user

\* the handler of a process is between its first and its last line
InHandler(c) == c.pc \in {"check", "ask", "update"}
WorkerIdle(w) ==
    \A n \in DOMAIN planCalls : planCalls[n].worker = w => ~InHandler(planCalls[n])

InitPlans ==
    /\ upstream = QuietWorld
    /\ changes = 0
    /\ cache = <<>>
    /\ lastUse = <<>>
    /\ evicted = {}
    /\ tasks = <<>>
    /\ history = 0
    /\ account \in {BasicAccount, PremiumAccount(1)}
    /\ clock = 0
    /\ planCalls = <<>>

sweepVars == <<upstream, changes, cache, lastUse, evicted, tasks, history>>

\* time passes
Tick ==
    /\ clock < MaxClock
    /\ clock' = clock + 1
    /\ UNCHANGED <<sweepVars, account, planCalls>>

\* a request of the user reaches process w
Receive(w) ==
    /\ Len(planCalls) < MaxPlanCalls
    /\ planCalls' = Append(planCalls, NewPlanCall(w))
    /\ UNCHANGED <<sweepVars, account, clock>>

\* get_current_user (auth.py, lines 27-47): current_user is the document read
\* before the handler runs
Authenticate(n) ==
    /\ planCalls[n].pc = "queued"
    /\ WorkerIdle(planCalls[n].worker)
    /\ planCalls' = [planCalls EXCEPT ![n].pc = "check",
                                      ![n].current_user = <<account>>]
    /\ UNCHANGED <<sweepVars, account, clock>>

\* plans.py, lines 69-71
CheckLimit(n) ==
    /\ planCalls[n].pc = "check"
    /\ \E r \in {check_can_generate_plan(account, clock)} :
          /\ account' = r.doc
          /\ planCalls' = [planCalls EXCEPT
                ![n].pc = IF r.can THEN "ask" ELSE "refused",
                ![n].expired = Expired(account, clock),
                ![n].asBasic = (r.doc.subscription_type = "basic"),
                ![n].checkedAt = clock]
    /\ UNCHANGED <<sweepVars, clock>>

\* plans.py, lines 73-204: the form of the plan follows current_user, and
\* ask_grok answers with a plan or with nothing
AskGrok(n, answer) ==
    /\ planCalls[n].pc = "ask"
    /\ planCalls' = [planCalls EXCEPT
          ![n].pc = IF answer = "plan" THEN "update" ELSE "failed",
          ![n].form = IF planCalls[n].current_user[1].subscription_type = "basic"
                      THEN "basic" ELSE "premium"]
    /\ UNCHANGED <<sweepVars, account, clock>>

\* plans.py, lines 206-211
Deliver(n) ==
    /\ planCalls[n].pc = "update"
    /\ account' = update_plan_generation(account, clock)
    /\ planCalls' = [planCalls EXCEPT ![n].pc = "delivered",
                                      ![n].deliveredAt = clock]
    /\ UNCHANGED <<sweepVars, clock>>

NextPlans ==
    \/ Tick
    \/ \E w \in Workers : Receive(w)
    \/ \E n \in DOMAIN planCalls : Authenticate(n)
    \/ \E n \in DOMAIN planCalls : CheckLimit(n)
    \/ \E n \in DOMAIN planCalls, answer \in {"plan", "nothing"} : AskGrok(n, answer)
    \/ \E n \in DOMAIN planCalls : Deliver(n)

SpecPlans == InitPlans /\ [][NextPlans]_vars

\* C29: no two plans are checked and delivered to a user on the basic
\* subscription within one UTC day
C29_OnePlanPerDay ==
    \A a, b \in DOMAIN planCalls :
        (a # b
            /\ planCalls[a].pc = "delivered" /\ planCalls[b].pc = "delivered"
            /\ planCalls[a].asBasic /\ planCalls[b].asBasic) =>
            ~(/\ DateOf(planCalls[a].checkedAt) = DateOf(planCalls[a].deliveredAt)
              /\ DateOf(planCalls[b].checkedAt) = DateOf(planCalls[b].deliveredAt)
              /\ DateOf(planCalls[a].deliveredAt) = DateOf(planCalls[b].deliveredAt))

\* C30: a plan delivered by the call whose limit check found the premium
\* subscription run out is of the basic form, and the user is basic then
C30_ExpiredPremiumGetsBasicPlan ==
    \A n \in DOMAIN planCalls :
        (planCalls[n].pc = "delivered" /\ planCalls[n].expired) =>
            /\ planCalls[n].asBasic
            /\ account.subscription_type = "basic"
            /\ planCalls[n].form = "basic"

====
